---- MODULE Spec2Model ----
(***************************************************************************)
(* Model of the xxl-job golang executor (hyperjiang/xxljob): the job table *)
(* e.jobs, TriggerJob and its block strategies, the runJob / Job.Run /     *)
(* watch goroutines of every Job, stopJob (kill, COVER_EARLY), idleBeat,   *)
(* the callback queue with its periodic reporter, and the lifecycle of     *)
(* the executor: Start, the registrar and Executor.Stop.                   *)
(*                                                                         *)
(* Every goroutine is a process; one action is one access to shared state  *)
(* (sync.Map Load/Store/Delete, a channel operation, a field of *Job that  *)
(* another goroutine reads) together with the local computation around it. *)
(***************************************************************************)
EXTENDS Integers, Sequences, FiniteSets, TLC

\* ---------------------------------------------------------------- bounds
\* Number of Jobs ever constructed by newJob in one behaviour.
MaxJobs == 2
\* Number of HTTP requests that may be inside stopJob at the same time.
MaxReq == 1
\* Options.CallbackBufferSize as configured (WithCallbackBufferSize).
CallbackBufferSize == 1
\* Calls of one admin endpoint that are counted.
MaxCalls == 2

\* ------------------------------------------------------------- constants
successCode == 200
failureCode == 500

SerialExecution == "SERIAL_EXECUTION"
DiscardLater == "DISCARD_LATER"
CoverEarly == "COVER_EARLY"

\* ---------------------------------------------------------------- inputs
JobIDs == {1, 2}
LogIDs == {1, 2}
\* "" is the strategy of a RunParam that does not set the field, "UNKNOWN" a
\* value that is none of the three constants.
Strategies == {SerialExecution, DiscardLater, CoverEarly, "", "UNKNOWN"}
HandlerNames == {"demoJobHandler", "unexistingHandler"}
Timeouts == {0, 1}

\* RunParam, the fields TriggerJob and newJob read.
RunParam ==
  [JobID : JobIDs, LogID : LogIDs, ExecutorBlockStrategy : Strategies,
   ExecutorHandler : HandlerNames, ExecutorTimeout : Timeouts]

\* The nil *Job.
Nil == 0

\* error values a JobHandler returns; "nil" is the nil error.
ErrNil == "nil"
ErrHandler == "handler error"
ErrCanceled == "context canceled"
ErrDeadline == "context deadline exceeded"

VARIABLES
  handlers,      \* e.handlers: the set of registered handler names
  jobs,          \* e.jobs (sync.Map): a set of <<key, *Job>> pairs
  job,           \* the Job objects, job[p] is the object behind pointer p
  pcRun,         \* pcRun[p]: position of the goroutine runJob(job[p])
  pcWatch,       \* pcWatch[p]: position and locals of the goroutine watch(job[p])
  callbackChan,  \* e.callbackChan: the buffered channel of CallbackParam
  notifier,      \* the reporter: position and the local slice callbacks
  req,           \* calls of stopJob in progress (run, kill, Executor.Stop)
  resp,          \* the Response written by the last answered request
  srv,           \* Start: not called, serving, returned (and why)
  registrar,     \* the scheduler that calls e.register on every tick
  admin,         \* the calls sent to the admin, per endpoint it is watched on
  closed,        \* close(e.callbackChan) has been executed
  crashed,       \* an unrecovered panic has ended the process
  stop           \* Executor.Stop: its position, the Jobs in the table when it
                 \* was called, and the keys Range has to visit and has visited

\* The executor's lifecycle outside Executor.Stop.
life == <<srv, registrar, admin, closed, crashed>>

vars ==
  <<handlers, jobs, job, pcRun, pcWatch, callbackChan, notifier, req, resp,
    srv, registrar, admin, closed, crashed, stop>>

\* The pointers to the Jobs constructed so far.
Ptrs == 1..Len(job)

\* ------------------------------------------------------------- sync.Map
\* sync.Map.Load on e.jobs followed by the type assertion of getJob.
getJob(id) ==
  IF \E e \in jobs : e[1] = id
    THEN (CHOOSE e \in jobs : e[1] = id)[2]
    ELSE Nil

\* sync.Map.Store.
Store(m, k, v) == {e \in m : e[1] # k} \cup {<<k, v>>}

\* A mutant of Delete: no entry is removed.
Delete_noKey(m, k) == m

\* A mutant of Delete: the map is emptied, whatever the key.
Delete_everyKey(m, k) == {}

\* sync.Map.Delete.
Delete(m, k) == {e \in m : e[1] # k}

\* A mutant of addJob: the Job is stored under its LogID.
addJob_byLogID(m, p) == Store(m, job[p].LogID, p)

\* addJob: e.jobs.Store(job.ID, job).
addJob(m, p) == Store(m, job[p].ID, p)

\* GetJobHandler: nil when the name is not registered.
GetJobHandler(name) == name \in handlers

\* ------------------------------------------------------------ responses
NewSuccResponse(op) == [op |-> op, code |-> successCode, msg |-> ""]
NewErrorResponse(op, msg) == [op |-> op, code |-> failureCode, msg |-> msg]
\* net/http recovers the panic of a handler and closes the connection:
\* the request gets no Response at all.
NoResponse(op) == [op |-> op, code |-> 0, msg |-> "panic: nil func call"]

\* The zero RunParam, for a request that carries none.
NoParam ==
  [JobID |-> 0, LogID |-> 0, ExecutorBlockStrategy |-> "", ExecutorHandler |-> "",
   ExecutorTimeout |-> 0]

NoReq == [op |-> "none", pc |-> "none", job |-> Nil, param |-> NoParam]
NoCb == [LogID |-> 0, HandleCode |-> 0, HandleMsg |-> ""]

\* ------------------------------------------------------------------ Init
\* The admin before any call, watched on its registry and registryRemove
\* endpoints: the calls of each are counted.
NoCalls == [registry |-> 0, registryRemove |-> 0]

\* The admin before any call, watched on /api/callback too: the batches it
\* is sent are kept, in the order of the calls.
NoCallsNoBatches == [registry |-> 0, registryRemove |-> 0, callback |-> <<>>]

\* NewExecutor, and AddJobHandler("demoJobHandler", ...): the notifier and
\* the registrar are started, Start has not been called.
NewExecutor ==
  /\ handlers = {"demoJobHandler"}
  /\ jobs = {}
  /\ job = <<>>
  /\ pcRun = <<>>
  /\ pcWatch = <<>>
  /\ callbackChan = <<>>
  /\ notifier = [pc |-> "idle", callbacks |-> <<>>]
  /\ req = [r \in 1..MaxReq |-> NoReq]
  /\ resp = [op |-> "none", code |-> 0, msg |-> ""]
  /\ registrar = "running"
  /\ closed = FALSE
  /\ crashed = FALSE
  /\ stop = [pc |-> "none", seen |-> {}, todo |-> {}, began |-> {}]

\* The executor once Start has registered and the server is listening.
Init == NewExecutor /\ srv = "serving" /\ admin = NoCalls

\* ------------------------------------------------------------ TriggerJob
\* A mutant of BlockStrategy: the duplicate check comes after the switch, so
\* DISCARD_LATER and COVER_EARLY decide before it.
BlockStrategy_duplicateLast(j, p) ==
  IF p.ExecutorBlockStrategy = DiscardLater /\ j # Nil
    THEN "a job of same id is already running"
  ELSE IF p.ExecutorBlockStrategy = CoverEarly /\ j # Nil THEN "stopJob"
  ELSE IF j # Nil /\ job[j].LogID = p.LogID THEN "duplicate log id"
  ELSE "newJob"

\* A mutant of BlockStrategy: the DISCARD_LATER case does not return, and
\* falls out of the switch to newJob.
BlockStrategy_discardProceeds(j, p) ==
  IF j # Nil /\ job[j].LogID = p.LogID THEN "duplicate log id"
  ELSE IF p.ExecutorBlockStrategy = CoverEarly /\ j # Nil THEN "stopJob"
  ELSE "newJob"

\* A mutant of BlockStrategy: every strategy but COVER_EARLY rejects the
\* trigger while the table holds a Job of its job ID.
BlockStrategy_serialRejects(j, p) ==
  IF j # Nil /\ job[j].LogID = p.LogID THEN "duplicate log id"
  ELSE IF p.ExecutorBlockStrategy = CoverEarly /\ j # Nil THEN "stopJob"
  ELSE IF j # Nil THEN "a job of same id is already running"
  ELSE "newJob"

\* The decision of TriggerJob on the Job it loaded from the table: the
\* duplicate check and the switch on ExecutorBlockStrategy.
BlockStrategy(j, p) ==
  IF j # Nil /\ job[j].LogID = p.LogID THEN "duplicate log id"
  ELSE IF p.ExecutorBlockStrategy = DiscardLater /\ j # Nil
    THEN "a job of same id is already running"
  ELSE IF p.ExecutorBlockStrategy = CoverEarly /\ j # Nil THEN "stopJob"
  ELSE "newJob"

\* The run requests inside stopJob that go on to construct a Job: each counts
\* towards MaxJobs.
Reserved ==
  Cardinality({r \in 1..MaxReq :
                 req[r].op = "run" /\ GetJobHandler(req[r].param.ExecutorHandler)})

\* The first request slot that is free, 0 when none is.
FreeReq ==
  IF \E r \in 1..MaxReq : req[r].op = "none"
    THEN CHOOSE r \in 1..MaxReq :
           req[r].op = "none" /\ \A q \in 1..(r - 1) : req[q].op # "none"
    ELSE 0

\* A mutant of newJob: runJob is called without `go`, so the trigger call
\* has not answered when the Job is constructed.
newJob_noGo(p) ==
  IF ~GetJobHandler(p.ExecutorHandler)
    THEN [job |-> job, pcRun |-> pcRun, pcWatch |-> pcWatch,
          resp |-> NewErrorResponse("run", "job handler not found")]
    ELSE [job |-> Append(job, [ID |-> p.JobID, LogID |-> p.LogID,
                               Timeout |-> p.ExecutorTimeout,
                               cancel |-> FALSE, ctx |-> "nil", done |-> <<>>]),
          pcRun |-> Append(pcRun, "getJob"),
          pcWatch |-> Append(pcWatch, [pc |-> "done", cb |-> NoCb]),
          resp |-> resp]

\* newJob followed by `go e.runJob(newJob)` and the answer of trigger: what
\* they make of the Jobs, of the goroutines and of the Response.
newJob(p) ==
  IF ~GetJobHandler(p.ExecutorHandler)
    THEN [job |-> job, pcRun |-> pcRun, pcWatch |-> pcWatch,
          resp |-> NewErrorResponse("run", "job handler not found")]
    ELSE [job |-> Append(job, [ID |-> p.JobID, LogID |-> p.LogID,
                               Timeout |-> p.ExecutorTimeout,
                               cancel |-> FALSE, ctx |-> "nil", done |-> <<>>]),
          pcRun |-> Append(pcRun, "getJob"),
          pcWatch |-> Append(pcWatch, [pc |-> "done", cb |-> NoCb]),
          resp |-> NewSuccResponse("run")]

\* trigger / TriggerJob up to its first call of stopJob, or to its return: the
\* state it leaves, as a record of the variables it can write.
TriggerJobStep(p) ==
  LET j == getJob(p.JobID)
      d == BlockStrategy(j, p)
      n == newJob(p)
  IN CASE d = "newJob" ->
            [jobs |-> jobs, job |-> n.job, pcRun |-> n.pcRun, pcWatch |-> n.pcWatch,
             req |-> req, resp |-> n.resp]
       [] d = "stopJob" ->
            [jobs |-> jobs, job |-> job, pcRun |-> pcRun, pcWatch |-> pcWatch,
             req |-> IF FreeReq = 0 THEN req
                     ELSE [req EXCEPT ![FreeReq] =
                             [op |-> "run", pc |-> "Stop", job |-> j, param |-> p]],
             resp |-> resp]
       [] OTHER ->
            [jobs |-> jobs, job |-> job, pcRun |-> pcRun, pcWatch |-> pcWatch,
             req |-> req, resp |-> NewErrorResponse("run", d)]

\* The bounds of the model on TriggerJob: a request that constructs a Job
\* needs one of the MaxJobs, a request that calls stopJob a request slot.
TriggerJobBounds(p) ==
  LET d == BlockStrategy(getJob(p.JobID), p)
  IN /\ (d \in {"newJob", "stopJob"} /\ GetJobHandler(p.ExecutorHandler))
          => Len(job) + Reserved < MaxJobs
     /\ d = "stopJob" => FreeReq # 0

TriggerJob(p) ==
  /\ ~crashed
  /\ TriggerJobBounds(p)
  /\ \E t \in {TriggerJobStep(p)} :
       /\ jobs' = t.jobs
       /\ job' = t.job
       /\ pcRun' = t.pcRun
       /\ pcWatch' = t.pcWatch
       /\ req' = t.req
       /\ resp' = t.resp
  /\ UNCHANGED <<life, stop, handlers, callbackChan, notifier>>

\* ----------------------------------------------------------------- kill
\* kill up to its call of stopJob, or to its answer when no Job is found.
kill(id) ==
  LET j == getJob(id)
  IN IF crashed THEN FALSE
     ELSE IF j = Nil
       THEN /\ resp' = NewSuccResponse("kill")
            /\ UNCHANGED <<life, stop, handlers, jobs, job, pcRun, pcWatch,
                           callbackChan, notifier, req>>
       ELSE /\ FreeReq # 0
            /\ req' = [req EXCEPT ![FreeReq] =
                         [op |-> "kill", pc |-> "Stop", job |-> j, param |-> NoParam]]
            /\ UNCHANGED <<life, stop, handlers, jobs, job, pcRun, pcWatch,
                           callbackChan, notifier, resp>>

\* -------------------------------------------------------------- stopJob
\* Job.Stop: j.cancel(). The read of j.cancel is not ordered with the write
\* of Job.Run (the Job is stored in the table before Run assigns the field),
\* so the read yields the assigned function or still nil; calling nil panics.
\* A cancel function cancels a live context and is a no-op on a done one.
Stop(r) ==
  /\ ~crashed
  /\ req[r].pc = "Stop"
  /\ LET j == req[r].job
     IN \E cancel \in {job[j].cancel, FALSE} :
          IF cancel
            THEN /\ job' = [job EXCEPT ![j].ctx = IF @ = "live" THEN "canceled" ELSE @]
                 /\ req' = [req EXCEPT ![r].pc = "Delete"]
                 /\ UNCHANGED <<resp, stop, crashed>>
            ELSE /\ req' = [req EXCEPT ![r] = NoReq]
                 /\ UNCHANGED job
                 /\ IF req[r].op = "Stop"
                      THEN /\ stop' = [stop EXCEPT !.pc = "panic"]
                           /\ crashed' = TRUE
                           /\ UNCHANGED resp
                      ELSE /\ resp' = NoResponse(req[r].op)
                           /\ UNCHANGED <<stop, crashed>>
  /\ UNCHANGED <<srv, registrar, admin, closed, handlers, jobs, pcRun, pcWatch,
                 callbackChan, notifier>>

\* stopJob: e.jobs.Delete(job.ID), then the rest of the caller: kill answers,
\* TriggerJob goes on to newJob, the Range of Executor.Stop goes on.
stopJob(r) ==
  /\ ~crashed
  /\ req[r].pc = "Delete"
  /\ jobs' = Delete(jobs, job[req[r].job].ID)
  /\ req' = [req EXCEPT ![r] = NoReq]
  /\ CASE req[r].op = "kill" ->
            /\ resp' = NewSuccResponse("kill")
            /\ UNCHANGED <<job, pcRun, pcWatch, stop>>
       [] req[r].op = "Stop" ->
            /\ stop' = [stop EXCEPT !.pc = "Range"]
            /\ UNCHANGED <<job, pcRun, pcWatch, resp>>
       [] OTHER ->
            LET n == newJob(req[r].param)
            IN /\ job' = n.job
               /\ pcRun' = n.pcRun
               /\ pcWatch' = n.pcWatch
               /\ resp' = n.resp
               /\ UNCHANGED stop
  /\ UNCHANGED <<life, handlers, callbackChan, notifier>>

\* ------------------------------------------------------------- idleBeat
\* A mutant of idleBeatStep: a Job whose handler has returned, but which
\* watch has not removed yet, counts as idle.
idleBeatStep_untilReturn(id) ==
  [jobs |-> jobs,
   resp |-> IF getJob(id) # Nil /\ pcRun[getJob(id)] # "exit"
              THEN NewErrorResponse("idleBeat", "job is running")
              ELSE NewSuccResponse("idleBeat")]

\* idleBeat: the table it leaves and the Response it writes.
idleBeatStep(id) ==
  [jobs |-> jobs,
   resp |-> IF getJob(id) # Nil
              THEN NewErrorResponse("idleBeat", "job is running")
              ELSE NewSuccResponse("idleBeat")]

idleBeat(id) ==
  LET t == idleBeatStep(id)
  IN /\ ~crashed
     /\ jobs' = t.jobs
     /\ resp' = t.resp
     /\ UNCHANGED <<life, stop, handlers, job, pcRun, pcWatch, callbackChan, notifier, req>>

\* --------------------------------------------------------------- runJob
\* One round of the wait loop: leave it when the table has no Job of this
\* ID, otherwise sleep and look again.
runJob(p) ==
  /\ ~crashed
  /\ p \in Ptrs
  /\ pcRun[p] = "getJob"
  /\ getJob(job[p].ID) = Nil
  /\ pcRun' = [pcRun EXCEPT ![p] = "addJob"]
  /\ UNCHANGED <<life, stop, handlers, jobs, job, pcWatch, callbackChan, notifier,
                 req, resp>>

\* e.addJob(job) after the loop.
runJob_addJob(p) ==
  /\ ~crashed
  /\ p \in Ptrs
  /\ pcRun[p] = "addJob"
  /\ jobs' = addJob(jobs, p)
  /\ pcRun' = [pcRun EXCEPT ![p] = "Run"]
  /\ UNCHANGED <<life, stop, handlers, job, pcWatch, callbackChan, notifier, req, resp>>

\* Job.Run up to the call of the handler: j.ctx and j.cancel are assigned.
Run(p) ==
  /\ ~crashed
  /\ p \in Ptrs
  /\ pcRun[p] = "Run"
  /\ job' = [job EXCEPT ![p].cancel = TRUE, ![p].ctx = "live"]
  /\ pcRun' = [pcRun EXCEPT ![p] = "Handle"]
  /\ UNCHANGED <<life, stop, handlers, jobs, pcWatch, callbackChan, notifier, req, resp>>

\* The errors a handler can return in the state of its context: nil, an
\* error of its own, or ctx.Err() once the context is done.
HandleErrors(p) ==
  {ErrNil, ErrHandler}
    \cup (IF job[p].ctx = "canceled" THEN {ErrCanceled} ELSE {})
    \cup (IF job[p].ctx = "deadline" THEN {ErrDeadline} ELSE {})

\* The handler returns and Job.Run sends the error on j.done (capacity 1).
Handle(p) ==
  /\ ~crashed
  /\ p \in Ptrs
  /\ pcRun[p] = "Handle"
  /\ \E err \in HandleErrors(p) :
       job' = [job EXCEPT ![p].done = <<err>>]
  /\ pcRun' = [pcRun EXCEPT ![p] = "exit"]
  /\ UNCHANGED <<life, stop, handlers, jobs, pcWatch, callbackChan, notifier, req, resp>>

\* The timer of context.WithTimeout fires.
WithTimeout(p) ==
  /\ ~crashed
  /\ p \in Ptrs
  /\ job[p].Timeout > 0
  /\ job[p].ctx = "live"
  /\ job' = [job EXCEPT ![p].ctx = "deadline"]
  /\ UNCHANGED <<life, stop, handlers, jobs, pcRun, pcWatch, callbackChan, notifier,
                 req, resp>>

\* ---------------------------------------------------------------- watch
\* A mutant of CallbackParam: the error of a done context counts as success.
CallbackParam_ctxErrOK(p, err) ==
  IF err \notin {ErrNil, ErrCanceled, ErrDeadline}
    THEN [LogID |-> job[p].LogID, HandleCode |-> failureCode, HandleMsg |-> err]
    ELSE [LogID |-> job[p].LogID, HandleCode |-> successCode, HandleMsg |-> "OK"]

\* The CallbackParam watch builds from the error it received.
CallbackParam(p, err) ==
  IF err # ErrNil
    THEN [LogID |-> job[p].LogID, HandleCode |-> failureCode, HandleMsg |-> err]
    ELSE [LogID |-> job[p].LogID, HandleCode |-> successCode, HandleMsg |-> "OK"]

\* watch: receive from job.done, e.jobs.Delete(job.ID), build the CallbackParam.
watch(p) ==
  /\ ~crashed
  /\ p \in Ptrs
  /\ pcWatch[p].pc = "done"
  /\ job[p].done # <<>>
  /\ jobs' = Delete(jobs, job[p].ID)
  /\ pcWatch' = [pcWatch EXCEPT ![p] =
                   [pc |-> "callbackChan", cb |-> CallbackParam(p, Head(job[p].done))]]
  /\ job' = [job EXCEPT ![p].done = <<>>]
  /\ UNCHANGED <<life, stop, handlers, pcRun, callbackChan, notifier, req, resp>>

\* watch: e.callbackChan <- cb, which blocks while the buffer is full and
\* panics (send on closed channel) once Executor.Stop has closed the channel.
watch_callbackChan(p) ==
  /\ ~crashed
  /\ p \in Ptrs
  /\ pcWatch[p].pc = "callbackChan"
  /\ IF closed
       THEN /\ pcWatch' = [pcWatch EXCEPT ![p].pc = "panic"]
            /\ crashed' = TRUE
            /\ UNCHANGED callbackChan
       ELSE /\ Len(callbackChan) < CallbackBufferSize
            /\ callbackChan' = Append(callbackChan, pcWatch[p].cb)
            /\ pcWatch' = [pcWatch EXCEPT ![p] = [pc |-> "exit", cb |-> NoCb]]
            /\ UNCHANGED crashed
  /\ UNCHANGED <<srv, registrar, admin, closed, stop, handlers, jobs, job, pcRun,
                 notifier, req, resp>>

\* --------------------------------------------------------- notifyResult
\* A mutant of callback: a post that failed is made once more.
callback_retry(a, callbacks, err) ==
  IF "callback" \in DOMAIN a
    THEN [a EXCEPT !.callback =
            IF err THEN @ \o <<[callbacks |-> callbacks, err |-> TRUE],
                                [callbacks |-> callbacks, err |-> FALSE]>>
                   ELSE Append(@, [callbacks |-> callbacks, err |-> FALSE])]
    ELSE a

\* callback: one post of the batch to /api/callback; its error is logged and
\* returned to the scheduler, which drops it.
callback(a, callbacks, err) ==
  IF "callback" \in DOMAIN a
    THEN [a EXCEPT !.callback = Append(@, [callbacks |-> callbacks, err |-> err])]
    ELSE a

\* A mutant of append: the entry received is put in front of the batch.
append_inFront(callbacks, cb) == <<cb>> \o callbacks

\* callbacks = append(callbacks, cb).
append(callbacks, cb) == Append(callbacks, cb)

\* A tick of the reporter: return when the channel is empty, else drain.
notifyResult ==
  /\ ~crashed
  /\ notifier.pc = "idle"
  /\ Len(callbackChan) # 0
  /\ notifier' = [pc |-> "select", callbacks |-> <<>>]
  /\ UNCHANGED <<life, stop, handlers, jobs, job, pcRun, pcWatch, callbackChan, req, resp>>

\* One round of the select: receive an entry, or, when none is ready, send
\* the batch with e.callback and return. On a closed and empty channel the
\* receive is always ready and yields the zero CallbackParam: the loop
\* appends zero values for ever ("spin"). The batch is kept to MaxJobs
\* entries, which is every CallbackParam there is unless Jobs are freed and
\* constructed anew during the drain.
notifyResult_select ==
  /\ ~crashed
  /\ notifier.pc = "select"
  /\ IF Len(callbackChan) # 0
       THEN /\ Len(notifier.callbacks) < MaxJobs
            /\ notifier' = [notifier EXCEPT !.callbacks = append(@, Head(callbackChan))]
            /\ callbackChan' = Tail(callbackChan)
            /\ UNCHANGED admin
       ELSE /\ IF closed
                 THEN /\ notifier' = [notifier EXCEPT !.pc = "spin"]
                      /\ UNCHANGED admin
                 ELSE /\ notifier' = [pc |-> "idle", callbacks |-> <<>>]
                      /\ \E err \in BOOLEAN :
                           admin' = callback(admin, notifier.callbacks, err)
            /\ UNCHANGED callbackChan
  /\ UNCHANGED <<srv, registrar, closed, crashed, stop, handlers, jobs, job, pcRun,
                 pcWatch, req, resp>>

\* ------------------------------------------------------------ lifecycle
\* post to the admin: the call is sent, and counted up to MaxCalls.
post(a, endpoint) ==
  [a EXCEPT ![endpoint] = IF @ < MaxCalls THEN @ + 1 ELSE @]

\* scheduler.Stop: the scheduler makes no tick after it.
SchedulerStop(s) == "stopped"

\* The jobs, Jobs, goroutines, requests and Response, which the lifecycle
\* actions outside Executor.Stop's Range leave alone.
work == <<handlers, jobs, job, pcRun, pcWatch, callbackChan, notifier, req, resp>>

\* A tick of the registrar: e.register(); its error is logged and dropped.
register ==
  /\ ~crashed
  /\ registrar = "running"
  /\ admin.registry < MaxCalls
  /\ admin' = post(admin, "registry")
  /\ UNCHANGED <<work, srv, registrar, closed, crashed, stop>>

\* Start up to the goroutine of ListenAndServe: e.register(), whose error
\* makes Start return. Start is called once, before Executor.Stop.
Start ==
  /\ ~crashed
  /\ srv = "new"
  /\ stop.pc = "none"
  /\ admin' = post(admin, "registry")
  /\ \E err \in BOOLEAN :
       srv' = IF err THEN "register failed" ELSE "ListenAndServe"
  /\ UNCHANGED <<work, registrar, closed, crashed, stop>>

\* ListenAndServe binds the port, or fails and Start returns its error.
Start_ListenAndServe ==
  /\ ~crashed
  /\ srv = "ListenAndServe"
  /\ \E err \in BOOLEAN :
       srv' = IF err THEN "listen failed" ELSE "serving"
  /\ UNCHANGED <<work, registrar, admin, closed, crashed, stop>>

\* An interrupt signal: Start shuts the server down and returns.
Start_Shutdown ==
  /\ ~crashed
  /\ srv = "serving"
  /\ srv' = "shutdown"
  /\ UNCHANGED <<work, registrar, admin, closed, crashed, stop>>

\* A mutant of Stop_registrar: Executor.Stop goes on to deregister without
\* stopping the registrar.
Stop_registrarRuns ==
  /\ ~crashed
  /\ stop.pc = "none"
  /\ stop' = [stop EXCEPT !.pc = "deregister", !.began = {e[2] : e \in jobs}]
  /\ UNCHANGED <<work, srv, registrar, admin, closed, crashed>>

\* Executor.Stop: e.registrar.Stop().
Stop_registrar ==
  /\ ~crashed
  /\ stop.pc = "none"
  /\ registrar' = SchedulerStop(registrar)
  /\ stop' = [stop EXCEPT !.pc = "deregister", !.began = {e[2] : e \in jobs}]
  /\ UNCHANGED <<work, srv, admin, closed, crashed>>

\* Executor.Stop: _ = e.deregister(), then e.jobs.Range begins.
Stop_deregister ==
  /\ ~crashed
  /\ stop.pc = "deregister"
  /\ admin' = post(admin, "registryRemove")
  /\ stop' = [stop EXCEPT !.pc = "Range", !.seen = {}, !.todo = {e[1] : e \in jobs}]
  /\ UNCHANGED <<work, srv, registrar, closed, crashed>>

\* Executor.Stop, one round of e.jobs.Range: the callback is called with an
\* entry whose key has not been visited and calls e.stopJob(job). Range
\* visits no key twice; an entry stored while it runs is visited or not.
Stop_Range ==
  /\ ~crashed
  /\ stop.pc = "Range"
  /\ FreeReq # 0
  /\ \E e \in jobs :
       /\ e[1] \notin stop.seen
       /\ req' = [req EXCEPT ![FreeReq] =
                    [op |-> "Stop", pc |-> "Stop", job |-> e[2], param |-> NoParam]]
       /\ stop' = [stop EXCEPT !.pc = "stopJob", !.seen = @ \cup {e[1]}]
  /\ UNCHANGED <<life, handlers, jobs, job, pcRun, pcWatch, callbackChan,
                 notifier, resp>>

\* Executor.Stop: Range is over, close(e.callbackChan).
Stop_close ==
  /\ ~crashed
  /\ stop.pc = "Range"
  /\ \A k \in stop.todo : k \in stop.seen \/ getJob(k) = Nil
  /\ closed' = TRUE
  /\ stop' = [stop EXCEPT !.pc = "notifier"]
  /\ UNCHANGED <<work, srv, registrar, admin, crashed>>

\* Executor.Stop: e.notifier.Stop(), and Stop returns.
Stop_notifier ==
  /\ ~crashed
  /\ stop.pc = "notifier"
  /\ notifier.pc = "idle"
  /\ notifier' = [notifier EXCEPT !.pc = SchedulerStop(notifier.pc)]
  /\ stop' = [stop EXCEPT !.pc = "done"]
  /\ UNCHANGED <<handlers, jobs, job, pcRun, pcWatch, callbackChan, req, resp,
                 life>>

\* A mutant of parseParam: the endpoint drops the error of parseParam and
\* goes on with the zero parameter; kill and idleBeat of job ID 0 and log
\* then answer 200.
parseParam_errDropped(op) ==
  /\ ~crashed
  /\ resp' = IF op = "run" THEN NewErrorResponse(op, "job handler not found")
                           ELSE NewSuccResponse(op)
  /\ UNCHANGED <<life, stop, handlers, jobs, job, pcRun, pcWatch, callbackChan,
                 notifier, req>>

\* A request whose body is not the JSON of its parameter: parseParam fails
\* and the endpoint answers with the error.
parseParam(op) ==
  /\ ~crashed
  /\ resp' = NewErrorResponse(op, "invalid character")
  /\ UNCHANGED <<life, stop, handlers, jobs, job, pcRun, pcWatch, callbackChan,
                 notifier, req>>

\* log: the dummy LogResult.
log ==
  /\ ~crashed
  /\ resp' = NewSuccResponse("log")
  /\ UNCHANGED <<life, stop, handlers, jobs, job, pcRun, pcWatch, callbackChan,
                 notifier, req>>

\* ----------------------------------------------------------------- Next
\* The requests the HTTP server handles.
Requests(Params) ==
  \/ \E p \in Params : TriggerJob(p)
  \/ \E id \in JobIDs : kill(id)
  \/ \E id \in JobIDs : idleBeat(id)

\* The steps of the goroutines and of the calls of stopJob in progress.
Goroutines ==
  \/ \E r \in 1..MaxReq : Stop(r)
  \/ \E r \in 1..MaxReq : stopJob(r)
  \/ \E p \in 1..MaxJobs : runJob(p)
  \/ \E p \in 1..MaxJobs : runJob_addJob(p)
  \/ \E p \in 1..MaxJobs : Run(p)
  \/ \E p \in 1..MaxJobs : Handle(p)
  \/ \E p \in 1..MaxJobs : watch(p)
  \/ \E p \in 1..MaxJobs : watch_callbackChan(p)
  \/ notifyResult
  \/ notifyResult_select

NextOf(Params) == Requests(Params) \/ Goroutines

\* The run requests with executorTimeout = 0: their contexts have no timer.
NoTimeoutParam == {p \in RunParam : p.ExecutorTimeout = 0}

Next == NextOf(NoTimeoutParam)

\* The executor under run requests of every block strategy, none with a
\* timeout.
Spec == Init /\ [][Next]_vars

\* The executor when every run request asks for SERIAL_EXECUTION.
SerialParam == {p \in NoTimeoutParam : p.ExecutorBlockStrategy = SerialExecution}

SpecSerial == Init /\ [][NextOf(SerialParam)]_vars

\* The executor when every run request asks for COVER_EARLY.
CoverParam == {p \in NoTimeoutParam : p.ExecutorBlockStrategy = CoverEarly}

SpecCover == Init /\ [][NextOf(CoverParam)]_vars

\* The executor under run requests for one job ID and a registered handler,
\* with and without a timeout, and the timers of their contexts.
TimeoutParam ==
  {p \in RunParam : /\ p.JobID = 1
                    /\ p.ExecutorHandler = "demoJobHandler"
                    /\ p.ExecutorBlockStrategy \in {SerialExecution, CoverEarly}}

NextTimeout ==
  \/ NextOf(TimeoutParam)
  \/ \E p \in 1..MaxJobs : WithTimeout(p)

SpecTimeout == Init /\ [][NextTimeout]_vars

\* A run request that the listening server hands to trigger.
run(p) == srv = "serving" /\ TriggerJob(p)

\* The run requests of the lifecycle specification: one job ID, one strategy,
\* the registered handler.
LifeParam ==
  {p \in SerialParam : p.JobID = 1 /\ p.ExecutorHandler = "demoJobHandler"}

\* The executor from NewExecutor through Start to the end of Executor.Stop:
\* the server handles run requests while it is serving, the goroutines and
\* the registrar run from construction.
NextLife ==
  \/ \E p \in LifeParam : run(p)
  \/ Goroutines
  \/ register
  \/ Start
  \/ Start_ListenAndServe
  \/ Start_Shutdown
  \/ Stop_registrar
  \/ Stop_deregister
  \/ Stop_Range
  \/ Stop_close
  \/ Stop_notifier

\* The executor as NewExecutor returns it.
InitLife == NewExecutor /\ srv = "new" /\ admin = NoCallsNoBatches

SpecLife == InitLife /\ [][NextLife]_vars

\* The endpoints that parse a JSON body.
Endpoints == {"idleBeat", "log", "run", "kill"}

\* The serving executor under SERIAL_EXECUTION run requests, kill, idleBeat,
\* log, and requests with malformed bodies.
NextGateway ==
  \/ NextOf(SerialParam)
  \/ \E op \in Endpoints : parseParam(op)
  \/ log

SpecGateway == Init /\ [][NextGateway]_vars

\* ------------------------------------------------------------- fairness
\* The goroutine runJob(job[p]): the wait loop, addJob, Job.Run, the handler.
go_runJob(p) == runJob(p) \/ runJob_addJob(p) \/ Run(p) \/ Handle(p)

\* The goroutine watch(job[p]).
go_watch(p) == watch(p) \/ watch_callbackChan(p)

\* The goroutine of the notifier, which calls notifyResult on every tick.
go_notifyResult == notifyResult \/ notifyResult_select

\* The goroutine of a request inside stopJob.
go_stopJob(r) == Stop(r) \/ stopJob(r)

\* The Go scheduler runs every goroutine that can take a step, every timer
\* fires, and every handler returns: a step that stays possible is taken.
\* The wait loop of runJob looks at the table once per interval, so it is
\* sure to leave only when the table stays free of its job ID; nothing makes
\* a request arrive.
Fairness ==
  /\ \A p \in 1..MaxJobs : WF_vars(go_runJob(p)) /\ WF_vars(go_watch(p))
  /\ \A r \in 1..MaxReq : WF_vars(go_stopJob(r))
  /\ WF_vars(go_notifyResult)

\* The garbage collector frees a Job that no goroutine, table entry or request
\* refers to any more; the pointer handed out last is handed out again.
free ==
  /\ ~crashed
  /\ Len(job) > 0
  /\ pcRun[Len(job)] = "exit"
  /\ pcWatch[Len(job)].pc = "exit"
  /\ \A e \in jobs : e[2] # Len(job)
  /\ \A r \in 1..MaxReq : req[r].job # Len(job)
  /\ Len(job) \notin stop.began
  /\ job' = SubSeq(job, 1, Len(job) - 1)
  /\ pcRun' = SubSeq(pcRun, 1, Len(job) - 1)
  /\ pcWatch' = SubSeq(pcWatch, 1, Len(job) - 1)
  /\ UNCHANGED <<life, stop, handlers, jobs, callbackChan, notifier, req, resp>>

\* The run requests of the stream: one job ID, the registered handler,
\* SERIAL_EXECUTION or COVER_EARLY.
StreamParam ==
  {p \in NoTimeoutParam : /\ p.JobID = 1
                          /\ p.ExecutorHandler = "demoJobHandler"
                          /\ p.ExecutorBlockStrategy \in {SerialExecution, CoverEarly}}

\* The serving executor under a stream of run requests that need not end,
\* with fair goroutines.
NextStream ==
  \/ \E p \in StreamParam : TriggerJob(p)
  \/ Goroutines
  \/ free

SpecStream == Init /\ [][NextStream]_vars /\ Fairness

\* ============================================================== claims

\* The Job behind pointer p is the table's entry for its ID.
InTable(p) == <<job[p].ID, p>> \in jobs

\* The handler of job[p] has been invoked and has not returned.
Executing(p) == pcRun[p] = "Handle"

\* The handler of job[p] has been invoked.
Started(p) == pcRun[p] \in {"Handle", "exit"}

\* The handler of job[p] has returned.
Completed(p) == pcRun[p] = "exit"

\* Two different Jobs of one job ID; pointers are handed out in the order
\* in which the triggers were accepted.
SameID(p, q) == p # q /\ job[p].ID = job[q].ID

\* C1: at no instant do the handlers of two Jobs with the same job ID
\* execute at the same time.
C1_NoOverlap ==
  \A p, q \in Ptrs : SameID(p, q) => ~(Executing(p) /\ Executing(q))

\* C2: the table holds at most one Job per job ID, and the Job stored under
\* key k has ID = k.
C2_TableKeyed ==
  /\ \A e \in jobs : e[2] \in Ptrs /\ job[e[2]].ID = e[1]
  /\ \A e, f \in jobs : job[e[2]].ID = job[f[2]].ID => e = f

\* C2 witness: the table holds a Job for each of two job IDs.
C2_Witness ==
  /\ Cardinality(jobs) = 2
  /\ \A e \in jobs : job[e[2]].ID = e[1]

\* The Job TriggerJob(p) finds in the table has the LogID of p.
Duplicate(p) ==
  /\ getJob(p.JobID) # Nil
  /\ job[getJob(p.JobID)].LogID = p.LogID

\* C3: in every reachable state, a trigger whose logId is that of the Job the
\* table holds for its job ID is answered "duplicate log id" under every
\* block strategy, and changes neither the table nor any Job, goroutine or
\* request.
C3_DuplicateLogID ==
  \A p \in RunParam :
    Duplicate(p) =>
      /\ TriggerJobBounds(p)
      /\ TriggerJobStep(p) =
           [jobs |-> jobs, job |-> job, pcRun |-> pcRun, pcWatch |-> pcWatch,
            req |-> req, resp |-> NewErrorResponse("run", "duplicate log id")]

\* C3 witness: a run request was answered "duplicate log id" while the table
\* holds a Job.
C3_Witness ==
  /\ resp = NewErrorResponse("run", "duplicate log id")
  /\ jobs # {}

\* C4: no run request is accepted for the (jobId, logId) of an accepted Job
\* whose handler has not completed.
C4_NoSecondAccept ==
  \A p, q \in Ptrs :
    (p < q /\ SameID(p, q) /\ job[p].LogID = job[q].LogID) => Completed(p)

\* C5: in every reachable state, a DISCARD_LATER trigger that finds a Job of
\* its job ID with another logId in the table is answered with the "already
\* running" error and changes neither the table nor any Job, goroutine or
\* request.
C5_DiscardLater ==
  \A p \in RunParam :
    (/\ p.ExecutorBlockStrategy = DiscardLater
     /\ getJob(p.JobID) # Nil
     /\ ~Duplicate(p)) =>
      /\ TriggerJobBounds(p)
      /\ TriggerJobStep(p) =
           [jobs |-> jobs, job |-> job, pcRun |-> pcRun, pcWatch |-> pcWatch,
            req |-> req,
            resp |-> NewErrorResponse("run", "a job of same id is already running")]

\* C5 witness: a run request was answered "already running" while the table
\* holds a Job whose context is not cancelled.
C5_Witness ==
  /\ resp = NewErrorResponse("run", "a job of same id is already running")
  /\ \E p \in Ptrs : InTable(p) /\ job[p].ctx = "live"

\* C6: a COVER_EARLY trigger with a registered handler that found a Job of
\* its job ID (with another logId) in the table ends with that Job's context
\* cancelled, that Job out of the table, the answer 200 and one new Job.
C6_CoverEarly ==
  [][\A r \in 1..MaxReq :
       (/\ req[r].op = "run"
        /\ req'[r].op = "none"
        /\ GetJobHandler(req[r].param.ExecutorHandler)) =>
         /\ resp' = NewSuccResponse("run")
         /\ Len(job') = Len(job) + 1
         /\ job'[req[r].job].ctx \in {"canceled", "deadline"}
         /\ <<job[req[r].job].ID, req[r].job>> \notin jobs']_vars

\* C7: once a COVER_EARLY trigger for a job ID is accepted, no Job accepted
\* for that ID before it is the table's occupant (checked where every
\* trigger is COVER_EARLY).
C7_QueueCleared ==
  \A p, q \in Ptrs : (p < q /\ SameID(p, q)) => ~InTable(p)

\* C8: Jobs of one job ID start their handlers in the order in which their
\* triggers were accepted (checked where every trigger is SERIAL_EXECUTION).
C8_FIFO ==
  \A p, q \in Ptrs : (p < q /\ SameID(p, q) /\ Started(q)) => Started(p)

\* C9: in every reachable state, a trigger with SERIAL_EXECUTION, the empty
\* or an unknown strategy, a registered handler and no Job with its logId
\* found in the table is answered 200 and constructs exactly one Job (with
\* its runJob and watch goroutines), whether or not the table holds a Job of
\* its job ID; the table, the other Jobs and the requests are unchanged.
C9_SerialAccepts ==
  \A p \in RunParam :
    (/\ p.ExecutorBlockStrategy \notin {DiscardLater, CoverEarly}
     /\ GetJobHandler(p.ExecutorHandler)
     /\ ~Duplicate(p)) =>
      LET t == TriggerJobStep(p)
      IN /\ t.resp = NewSuccResponse("run")
         /\ Len(t.job) = Len(job) + 1
         /\ SubSeq(t.job, 1, Len(job)) = job
         /\ t.job[Len(t.job)].ID = p.JobID
         /\ t.job[Len(t.job)].LogID = p.LogID
         /\ t.pcRun = Append(pcRun, "getJob")
         /\ t.pcWatch = Append(pcWatch, [pc |-> "done", cb |-> NoCb])
         /\ t.jobs = jobs
         /\ t.req = req

\* C9 witness: a run request was answered 200 and its Job waits behind the
\* Job the table holds for the same job ID.
C9_Witness ==
  /\ resp = NewSuccResponse("run")
  /\ \E p, q \in Ptrs :
       p < q /\ SameID(p, q) /\ InTable(p) /\ Executing(p) /\ pcRun[q] = "getJob"

\* C10: in every reachable state, idleBeat answers 200 exactly when the table
\* has no entry for the job ID, answers 500 "job is running" otherwise, and
\* leaves the table as it is.
C10_IdleBeat ==
  \A id \in JobIDs :
    LET t == idleBeatStep(id)
    IN /\ t.resp.code = successCode <=> ~(\E e \in jobs : e[1] = id)
       /\ (\E e \in jobs : e[1] = id) =>
            t.resp = NewErrorResponse("idleBeat", "job is running")
       /\ t.resp.code \in {successCode, failureCode}
       /\ t.jobs = jobs

\* C10 witness: idleBeat was answered "job is running" while the table holds
\* a Job whose handler has returned and which watch has not removed yet.
C10_Witness ==
  /\ resp = NewErrorResponse("idleBeat", "job is running")
  /\ \E p \in Ptrs : InTable(p) /\ Completed(p)

\* C11: while an accepted Job of a job ID has neither completed nor been
\* cancelled, idleBeat for that job ID answers 500 "job is running".
C11_NotIdle ==
  \A p \in Ptrs :
    (~Completed(p) /\ job[p].ctx \notin {"canceled", "deadline"}) =>
      idleBeatStep(job[p].ID).resp = NewErrorResponse("idleBeat", "job is running")

\* C12: kill always answers 200; when the table has no entry for the job ID
\* the table and the Jobs are unchanged, and when it has one, kill returns
\* with that Job's context cancelled and no entry for the job ID in the table.
C12_Kill ==
  [][/\ \A id \in JobIDs :
          (getJob(id) = Nil /\ kill(id)) =>
            /\ resp' = NewSuccResponse("kill")
            /\ UNCHANGED <<jobs, job>>
     /\ \A r \in 1..MaxReq :
          (req[r].op = "kill" /\ req'[r].op = "none") =>
            /\ resp' = NewSuccResponse("kill")
            /\ job'[req[r].job].ctx \in {"canceled", "deadline"}
            /\ \A e \in jobs' : e[1] # job[req[r].job].ID]_vars

\* C14: the CallbackParam watch builds for a Job has handleCode 200 and
\* handleMsg "OK" exactly when the handler returned the nil error, and
\* otherwise handleCode 500 and the text of the error as handleMsg, the
\* context's cancellation and deadline errors included.
C14_HandleCode ==
  [][\A p \in Ptrs :
       (pcWatch[p].pc = "done" /\ pcWatch'[p].pc = "callbackChan") =>
         LET err == Head(job[p].done)
             cb == pcWatch'[p].cb
         IN /\ (cb.HandleCode = successCode /\ cb.HandleMsg = "OK") <=> err = ErrNil
            /\ err # ErrNil => (cb.HandleCode = failureCode /\ cb.HandleMsg = err)
            /\ cb.LogID = job[p].LogID]_vars

\* C14 witness: a watcher holds the CallbackParam of a handler that returned
\* the deadline error of its context.
C14_Witness ==
  \E p \in Ptrs :
    /\ pcWatch[p].pc = "callbackChan"
    /\ pcWatch[p].cb = [LogID |-> job[p].LogID, HandleCode |-> failureCode,
                        HandleMsg |-> ErrDeadline]

\* C17: in every reachable state, whatever the handlers are doing, a run
\* request that goes on to newJob with a registered handler is answered 200
\* by the trigger call itself: the new Job has not started (its runJob
\* goroutine has not yet looked at the table), no other Job or goroutine has
\* moved, and the table is as it was; a request inside stopJob can always take
\* its next step, so it never waits for a handler either.
C17_NonBlocking ==
  /\ \A p \in RunParam :
       (/\ GetJobHandler(p.ExecutorHandler)
        /\ BlockStrategy(getJob(p.JobID), p) = "newJob") =>
         LET t == TriggerJobStep(p)
             n == Len(t.job)
         IN /\ t.resp = NewSuccResponse("run")
            /\ n = Len(job) + 1
            /\ t.pcRun[n] = "getJob"
            /\ t.job[n].done = <<>>
            /\ SubSeq(t.pcRun, 1, Len(job)) = pcRun
            /\ SubSeq(t.job, 1, Len(job)) = job
            /\ t.jobs = jobs
  /\ \A r \in 1..MaxReq :
       /\ req[r].pc = "Stop" => ENABLED Stop(r)
       /\ req[r].pc = "Delete" => ENABLED stopJob(r)

\* C17 witness: a run request was answered 200 while the handler of the Job
\* the table holds for its job ID is executing, and the new Job is waiting.
C17_Witness ==
  /\ resp = NewSuccResponse("run")
  /\ \A r \in 1..MaxReq : req[r].op = "none"
  /\ \E p, q \in Ptrs :
       /\ p < q /\ SameID(p, q)
       /\ InTable(p) /\ Executing(p)
       /\ ~InTable(q) /\ ~Started(q)

\* C13: the watcher of a Job enqueues exactly one CallbackParam, after the
\* handler has returned, with the Job's logId and handleCode 200 or 500: the
\* callback queue grows only by the one send of one watcher, a watcher that
\* has sent never sends again, and no watcher ends without having sent.
C13_OneCallback ==
  [][/\ Len(callbackChan') > Len(callbackChan) =>
          \E p \in Ptrs :
            /\ Completed(p)
            /\ pcWatch[p].pc = "callbackChan"
            /\ pcWatch'[p].pc = "exit"
            /\ \A q \in Ptrs \ {p} : pcWatch'[q] = pcWatch[q]
            /\ callbackChan' = Append(callbackChan, pcWatch[p].cb)
            /\ pcWatch[p].cb.LogID = job[p].LogID
            /\ pcWatch[p].cb.HandleCode \in {successCode, failureCode}
     /\ \A p \in Ptrs :
          /\ pcWatch[p].pc = "exit" => pcWatch'[p].pc = "exit"
          /\ pcWatch'[p].pc \in {"done", "callbackChan", "exit"}
          /\ pcWatch'[p].pc # "done" => Completed(p)]_vars

\* C15: a run request naming a handler that is not registered is answered
\* with code 500, with the "job handler not found" error whenever it was not
\* rejected before the handler lookup, and constructs no Job, starts no
\* runJob or watch goroutine and enqueues no CallbackParam; this holds of the
\* trigger call's return whether it returns at once or after stopJob.
C15_HandlerNotFound ==
  [][/\ \A p \in RunParam :
          (~GetJobHandler(p.ExecutorHandler) /\ TriggerJob(p)) =>
            /\ req' = req => resp'.code = failureCode
            /\ BlockStrategy(getJob(p.JobID), p) = "newJob" =>
                 resp' = NewErrorResponse("run", "job handler not found")
            /\ UNCHANGED <<job, pcRun, pcWatch, callbackChan>>
     /\ \A r \in 1..MaxReq :
          (/\ req[r].op = "run"
           /\ ~GetJobHandler(req[r].param.ExecutorHandler)
           /\ req'[r].op = "none") =>
            /\ resp' = NewErrorResponse("run", "job handler not found")
            /\ UNCHANGED <<job, pcRun, pcWatch, callbackChan>>]_vars

\* C16: a request to idleBeat, log, run or kill whose body fails to parse is
\* answered with code 500, and leaves the job table, every Job (its context
\* and cancel state), the goroutines, the calls of stopJob in progress and
\* the callback queue as they were.
C16_MalformedBody ==
  [][\A op \in Endpoints :
       parseParam(op) =>
         /\ resp'.op = op
         /\ resp'.code = failureCode
         /\ UNCHANGED <<jobs, job, pcRun, pcWatch, req, callbackChan, notifier>>]_vars

\* C16 witness: a kill request with a malformed body was answered 500 while
\* the table holds a Job whose context is live.
C16_Witness ==
  /\ resp = NewErrorResponse("kill", "invalid character")
  /\ \E p \in Ptrs : InTable(p) /\ job[p].ctx = "live"

\* C18: the context of a Job becomes cancelled exactly by the first of its
\* explicit termination (the Job.Stop of kill, COVER_EARLY or Executor.Stop)
\* and, when its Timeout is positive, the expiry of its timer: a context is
\* cancelled by nothing else, a timer fires only for a positive Timeout on a
\* live context, and a terminated Job has a done context.
C18_Cancellation ==
  [][\A p \in Ptrs :
       /\ (job[p].ctx # "canceled" /\ job'[p].ctx = "canceled") =>
            /\ job[p].ctx = "live"
            /\ \E r \in 1..MaxReq :
                 req[r].pc = "Stop" /\ req[r].job = p /\ req'[r].pc = "Delete"
       /\ (job[p].ctx # "deadline" /\ job'[p].ctx = "deadline") =>
            job[p].ctx = "live" /\ job[p].Timeout > 0
       /\ \A r \in 1..MaxReq :
            (req[r].pc = "Stop" /\ req[r].job = p /\ req'[r].pc # "Stop") =>
              job'[p].ctx \in {"canceled", "deadline"}]_vars

\* C19: a transport failure of a call to the admin never makes Start return:
\* Start returns with an error only when ListenAndServe fails.
C19_TransportNotFatal == srv # "register failed"

\* C20: the registrar runs, and can send the RegistryParam on a tick, from
\* construction until Executor.Stop stops it; Executor.Stop sends exactly one
\* deregistration call, and no registration call is sent once the
\* deregistration call has been sent.
C20_Registrar ==
  [][/\ (registrar = "running") <=> (stop.pc = "none")
     /\ (registrar = "running" /\ admin.registry < MaxCalls /\ ~crashed) =>
          ENABLED register
     /\ admin'.registry # admin.registry => admin.registryRemove = 0
     /\ admin'.registryRemove # admin.registryRemove =>
          /\ stop.pc = "deregister"
          /\ admin.registryRemove = 0 /\ admin'.registryRemove = 1
     /\ stop.pc \in {"none", "deregister"} => admin.registryRemove = 0
     /\ stop.pc \notin {"none", "deregister"} => admin.registryRemove = 1]_vars

\* C20 witness: Executor.Stop has returned, after registration calls and its
\* one deregistration call.
C20_Witness ==
  /\ stop.pc = "done"
  /\ admin.registry = MaxCalls
  /\ admin.registryRemove = 1

\* C21: forced termination removes the entry at once: when the stopJob of a
\* kill or of a COVER_EARLY trigger returns, the table has no entry for the
\* terminated Job's ID, whether or not that Job's handler has returned.
C21_RemovedAtOnce ==
  [][\A r \in 1..MaxReq :
       (req[r].op \in {"kill", "run"} /\ req'[r].op = "none") =>
         \A e \in jobs' : e[1] # job[req[r].job].ID]_vars

\* The batches sent to /api/callback so far.
Batches == admin.callback

\* C22: a call to /api/callback is made only by a tick that found the queue
\* non-empty, and every such tick ends with one call whose batch is every
\* entry it received from the queue, the queue being empty of them: a tick
\* on an empty queue makes no call, and no tick ends without its one call.
C22_OneBatch ==
  [][/\ Batches' # Batches =>
          /\ notifier.pc = "select"
          /\ notifier.callbacks # <<>>
          /\ Batches' = Append(Batches, Batches'[Len(Batches')])
          /\ Batches'[Len(Batches')].callbacks = notifier.callbacks
     /\ (notifier.pc = "select" /\ notifier'.pc # "select") =>
          /\ Len(Batches') = Len(Batches) + 1
          /\ callbackChan' = <<>>
     /\ (notifier.pc = "select" /\ notifier'.pc = "select" /\ notifier' # notifier) =>
          /\ callbackChan # <<>>
          /\ notifier'.callbacks = Append(notifier.callbacks, Head(callbackChan))
          /\ callbackChan' = Tail(callbackChan)
     /\ (notifier.pc = "idle" /\ callbackChan = <<>>) => ~ENABLED notifyResult]_vars

\* The entries of the batches bs, batch after batch.
Flatten(bs) ==
  LET f[i \in 0..Len(bs)] == IF i = 0 THEN <<>> ELSE f[i - 1] \o bs[i].callbacks
  IN f[Len(bs)]

\* Every CallbackParam enqueued so far: those sent, in the order of the
\* batches and within each batch, then those the reporter has received for
\* its next batch, then those in the queue.
Enqueued == Flatten(Batches) \o notifier.callbacks \o callbackChan

\* C23: the CallbackParams appear in the batches in the order in which they
\* were enqueued, within a batch and from one batch to the next: the sequence
\* of the entries sent, received and queued changes only by the send of a
\* watcher, which puts its CallbackParam at the end.
C23_BatchOrder ==
  [][Enqueued' # Enqueued =>
       \E p \in Ptrs :
         /\ pcWatch[p].pc = "callbackChan"
         /\ pcWatch'[p].pc = "exit"
         /\ Enqueued' = Append(Enqueued, pcWatch[p].cb)]_vars

\* C23 witness: a batch of two CallbackParams with different log IDs was
\* sent.
C23_Witness ==
  \E i \in 1..Len(Batches) :
    /\ Len(Batches[i].callbacks) = 2
    /\ Batches[i].callbacks[1].LogID # Batches[i].callbacks[2].LogID

\* The Jobs whose watcher has enqueued its CallbackParam.
Senders == {p \in Ptrs : pcWatch[p].pc = "exit"}

\* C24: every CallbackParam is in at most one batch: the entries sent,
\* received and queued are as many as the watchers that have enqueued one,
\* and a call to /api/callback that fails is the one call of its tick; it
\* leaves the queue and the job table as they were and the reporter with no
\* entry to send again.
C24_NoRetry ==
  [][/\ Len(Enqueued') = Cardinality(Senders')
     /\ (Batches' # Batches /\ Batches'[Len(Batches')].err) =>
          /\ Len(Batches') = Len(Batches) + 1
          /\ Batches'[Len(Batches')].callbacks = notifier.callbacks
          /\ notifier' = [pc |-> "idle", callbacks |-> <<>>]
          /\ UNCHANGED <<callbackChan, jobs, job, pcRun, pcWatch>>]_vars

\* C24 witness: a call to /api/callback failed, and a later tick has sent
\* the batch of another CallbackParam.
C24_Witness ==
  /\ Len(Batches) = 2
  /\ Batches[1].err
  /\ Len(Batches[1].callbacks) = 1
  /\ Len(Batches[2].callbacks) = 1
  /\ Batches[1].callbacks[1].LogID # Batches[2].callbacks[1].LogID

\* C25: the callback queue never holds more than CallbackBufferSize entries;
\* a watcher that has its CallbackParam to enqueue has removed its Job from
\* the table, keeps the CallbackParam while the queue is full, and can
\* enqueue it as soon as the queue has room: its next step puts that
\* CallbackParam at the end of the queue.
C25_Backpressure ==
  [][/\ Len(callbackChan') <= CallbackBufferSize
     /\ \A p \in Ptrs :
          pcWatch[p].pc = "callbackChan" =>
            /\ ~InTable(p)
            /\ Len(callbackChan) >= CallbackBufferSize => ~ENABLED watch_callbackChan(p)
            /\ Len(callbackChan) < CallbackBufferSize => ENABLED watch_callbackChan(p)
            /\ \/ pcWatch'[p] = pcWatch[p]
               \/ /\ pcWatch'[p].pc = "exit"
                  /\ callbackChan' = Append(callbackChan, pcWatch[p].cb)]_vars

\* C26: Executor.Stop goes through its steps in order and through all of
\* them: it stops the registrar, then sends the deregistration call, then
\* force-terminates the Jobs in the table, then stops the reporter; and when
\* it returns, every Job that was in the table when it was called has a
\* cancelled context and is out of the table.
C26_StopOrder ==
  [][/\ stop'.pc # stop.pc =>
          <<stop.pc, stop'.pc>> \in
            {<<"none", "deregister">>, <<"deregister", "Range">>,
             <<"Range", "stopJob">>, <<"stopJob", "Range">>,
             <<"Range", "notifier">>, <<"notifier", "done">>}
     /\ registrar' # registrar => stop.pc = "none"
     /\ admin'.registryRemove # admin.registryRemove =>
          /\ registrar = "stopped"
          /\ stop.pc = "deregister"
     /\ \A r \in 1..MaxReq :
          (req[r].op # "Stop" /\ req'[r].op = "Stop") =>
            /\ admin.registryRemove = 1
            /\ notifier.pc # "stopped"
     /\ (notifier.pc # "stopped" /\ notifier'.pc = "stopped") =>
          /\ stop.pc = "notifier"
          /\ \A r \in 1..MaxReq : req[r].op # "Stop"
     /\ (stop.pc # "done" /\ stop'.pc = "done") =>
          \A p \in stop.began :
            /\ job'[p].ctx \in {"canceled", "deadline"}
            /\ <<job[p].ID, p>> \notin jobs']_vars

\* All there is about job ID id: its entry in the table, its Jobs (fields,
\* context and cancel handle) with their runJob and watch goroutines, and the
\* calls of stopJob on its Jobs.
OfJobID(id) ==
  [entry |-> getJob(id),
   Jobs |-> [p \in {q \in Ptrs : job[q].ID = id} |-> <<job[p], pcRun[p], pcWatch[p]>>],
   stopJob |-> {r \in 1..MaxReq : req[r].job # Nil /\ job[req[r].job].ID = id}]

\* C27: job IDs are independent: no step changes anything of two job IDs, a
\* kill for one job ID leaves everything of every other job ID as it was,
\* and a waiting Job can leave its wait loop whenever the table has no entry
\* for its own job ID, whatever Jobs of other job IDs are in the table.
C27_Independent ==
  [][/\ \A a, b \in JobIDs :
          a < b => (OfJobID(a)' = OfJobID(a) \/ OfJobID(b)' = OfJobID(b))
     /\ \A a \in JobIDs :
          kill(a) => \A b \in JobIDs \ {a} : OfJobID(b)' = OfJobID(b)
     /\ \A p \in Ptrs :
          (pcRun[p] = "getJob" /\ getJob(job[p].ID) = Nil) => ENABLED runJob(p)]_vars

\* C27 witness: a Job of one job ID was killed, and the Job of another job ID
\* is in the table with a live context, its handler executing.
C27_Witness ==
  /\ resp = NewSuccResponse("kill")
  /\ \E p, q \in Ptrs :
       /\ job[p].ID # job[q].ID
       /\ job[p].ctx = "canceled" /\ ~InTable(p)
       /\ InTable(q) /\ Executing(q) /\ job[q].ctx = "live"

\* C28: a Job leaves the table only by its own watcher, once its handler has
\* returned, or by the stopJob of its own forced termination: neither the
\* watcher nor the stopJob of another Job of the same job ID removes it, and
\* no other Job takes its place.
C28_OwnWatcher ==
  [][\A p \in Ptrs :
       (InTable(p) /\ <<job[p].ID, p>> \notin jobs') =>
         \/ /\ Completed(p)
            /\ pcWatch[p].pc = "done"
            /\ pcWatch'[p].pc = "callbackChan"
         \/ \E r \in 1..MaxReq :
              req[r].job = p /\ req[r].pc = "Delete" /\ req'[r].pc = "none"]_vars

\* C29: every Job in the table has its cancel handle set, no call of Job.Stop
\* (kill, COVER_EARLY, Executor.Stop) finds it unset, and a Job that was
\* force-terminated has a cancelled context from then on.
C29_CancelSet ==
  [][/\ \A p \in Ptrs : InTable(p) => job[p].cancel
     /\ \A r \in 1..MaxReq :
          req[r].pc = "Stop" =>
            /\ job[req[r].job].cancel
            /\ req'[r] # req[r] =>
                 /\ req'[r].pc = "Delete"
                 /\ job'[req[r].job].ctx \in {"canceled", "deadline"}]_vars

\* C30: every tick of the reporter ends: the drain loop is left, by the
\* default branch of its select, as soon as the queue has no entry, also
\* when Executor.Stop has closed the queue; the reporter is never in a loop
\* that receives for ever.
C30_DrainEnds ==
  [][/\ notifier'.pc \in {"idle", "select", "stopped"}
     /\ (notifier.pc = "select" /\ callbackChan = <<>> /\ notifier' # notifier) =>
          notifier'.pc = "idle"]_vars

\* C31: with fair goroutines and handlers that return, every Job constructed
\* for an accepted trigger leaves the wait loop of runJob: it is inserted
\* into the table and its handler is invoked, however many other Jobs of its
\* job ID are accepted and run meanwhile.
C31_NoStarvation ==
  \A p \in 1..MaxJobs :
    (p \in Ptrs /\ pcRun[p] = "getJob") ~> (p \in Ptrs /\ Started(p))

\* C32: with fair goroutines and handlers that return, if from some point on
\* no run request arrives, then from some point on the job table is empty
\* and idleBeat answers 200 for every job ID.
C32_EventuallyIdle ==
  <>[][\A p \in StreamParam : ~TriggerJob(p)]_vars =>
    <>[](/\ jobs = {}
         /\ \A id \in JobIDs : idleBeatStep(id).resp = NewSuccResponse("idleBeat"))

\* C32 witness: the table is empty after one Job was removed by forced
\* termination and another by its watcher when its handler had returned, and
\* no Job is waiting or running.
C32_Witness ==
  /\ jobs = {}
  /\ \A r \in 1..MaxReq : req[r].op = "none"
  /\ \E p, q \in Ptrs :
       /\ p # q
       /\ job[p].ctx = "canceled" /\ Completed(p) /\ pcWatch[p].pc # "done"
       /\ job[q].ctx = "live" /\ Completed(q) /\ pcWatch[q].pc # "done"

TypeOK ==
  /\ handlers \subseteq HandlerNames
  /\ srv \in {"new", "ListenAndServe", "serving", "shutdown", "register failed",
               "listen failed"}
  /\ registrar \in {"running", "stopped"}
  /\ closed \in BOOLEAN /\ crashed \in BOOLEAN
  /\ \A e \in jobs : e[2] \in Ptrs
  /\ Len(job) <= MaxJobs
  /\ Len(callbackChan) <= CallbackBufferSize

====
